---- MODULE Spec2Model ----
(***************************************************************************)
(* flickr_archive_extractor.py: the archive index (FlickrArchive) and the  *)
(* resumable upload to Google Photos (upload_to_google_photos and the      *)
(* functions it calls), over the sqlite store of init_tables.              *)
(*                                                                         *)
(* One process runs at a time (the script is single-threaded).  A run is   *)
(* cut into steps at every remote call and every commit, so that a kill of *)
(* the process (Crash) and a restart (StartRun) can fall between any two.  *)
(* `db` is what the open connection sees, `disk` what has been committed.  *)
(***************************************************************************)
EXTENDS Integers, Sequences, FiniteSets, TLC

\* ------------------------------------------------------------------ bounds
\* The remote library counts the registrations of a pair up to MaxRemote and
\* stays there (the count is also the remote id it hands out).
MaxRemote == 2
\* The chunk granularities the remote service may advertise: 1..MaxGranularity.
MaxGranularity == 2
\* The remote calls of one invocation are counted up to MaxCalls.
MaxCalls == 1
\* The rate-limit simulation: the call of upload_item_to_google_photos, counted from 1
\* within a run, that the remote service answers with 429 (the "item 5 of 10").
RateLimitedItem == 2
\* The files of the archives that FlickrArchive.build scans: up to MaxFiles.
MaxFiles == 5
\* The photos of the large export, all matched and in no album: enough of them for
\* init_items_to_upload_to_google_photos to commit inside its loop and go on.
BatchItems == 1002

\* ------------------------------------------------------- program constants
\* `while retry < 5` in create_google_photos_album and upload_item_to_google_photos
RetryCeiling == 5
\* SQL NULL / Python None in a google_id column or variable
NoId == 0
\* SQL NULL / Python None as an album id (an item that is in no album)
NoAlbum == "null"

\* dict[k] = v
Put(f, k, v) == [x \in DOMAIN f \cup {k} |-> IF x = k THEN v ELSE f[x]]

\* ------------------------------------------------- FlickrArchive._post_process
\* A photo id of albums.json is a string: here the sequence of its characters.
Digits == {"0", "1", "2", "3", "4", "5", "6", "7", "8", "9"}

DigitVal(c) ==
    CASE c = "0" -> 0 [] c = "1" -> 1 [] c = "2" -> 2 [] c = "3" -> 3 [] c = "4" -> 4
      [] c = "5" -> 5 [] c = "6" -> 6 [] c = "7" -> 7 [] c = "8" -> 8 [] c = "9" -> 9

\* re.match(r'^\d+$', pid)
IsNumeric(pid) == Len(pid) > 0 /\ \A i \in 1..Len(pid) : pid[i] \in Digits

\* int(pid)
RECURSIVE ToInt(_)
ToInt(pid) ==
    IF Len(pid) = 0 THEN 0
    ELSE 10 * ToInt(SubSeq(pid, 1, Len(pid) - 1)) + DigitVal(pid[Len(pid)])

\* The keys of a dict of small integers, in the order the dict is iterated.
RECURSIVE KeysInOrder(_)
KeysInOrder(S) ==
    IF S = {} THEN << >>
    ELSE LET m == CHOOSE x \in S : \A y \in S : x <= y
         IN  << m >> \o KeysInOrder(S \ {m})

\* Mutant: the intersection left out
MatchedKeysOfItems(items, metadata) == DOMAIN items

\* items_keys.intersection(metadata_keys)
MatchedKeys(items, metadata) == DOMAIN items \cap DOMAIN metadata

\* {key: meta for key, meta in items_metadata.items() if meta.is_unprocessed_video}
UnprocessedKeys(metadata) == {k \in DOMAIN metadata : metadata[k].unprocessed}

\* self.without_metadata
WithoutMetadata(items, metadata) ==
    LET matched_uid == {items[k].uid : k \in MatchedKeys(items, metadata)}
    IN  {k \in DOMAIN items \ DOMAIN metadata : items[k].uid \notin matched_uid}

\* self.without_items
WithoutItems(items, metadata) ==
    (DOMAIN metadata \ DOMAIN items) \ UnprocessedKeys(metadata)

\* Mutant: the test `if pid == '0'` left out
ClassifyNoSentinel(pid, matched, unprocessed) ==
    IF ~IsNumeric(pid) THEN "wrong"
    ELSE IF ToInt(pid) \in unprocessed THEN "unprocessed"
    ELSE IF ToInt(pid) \notin matched THEN "missed"
    ELSE "member"

\* Mutant: an id that is not matched is skipped like an unprocessed video
ClassifyMissedSkipped(pid, matched, unprocessed) ==
    IF pid = << "0" >> THEN "dropped"
    ELSE IF ~IsNumeric(pid) THEN "wrong"
    ELSE IF ToInt(pid) \in unprocessed \/ ToInt(pid) \notin matched THEN "unprocessed"
    ELSE "member"

\* The branch that the body of `for pid in (album_json.get('photos') or [])` takes.
Classify(pid, matched, unprocessed) ==
    IF pid = << "0" >> THEN "dropped"                          \* wrong photos ids
    ELSE IF ~IsNumeric(pid) THEN "wrong"
    ELSE IF ToInt(pid) \in unprocessed THEN "unprocessed"
    ELSE IF ToInt(pid) \notin matched THEN "missed"
    ELSE "member"

\* The loop over one album's photos: acc is [items, index, missed, wrong].
RECURSIVE ScanPhotos(_, _, _, _, _, _)
ScanPhotos(photos, k, album_id, matched, unprocessed, acc) ==
    IF k > Len(photos) THEN acc
    ELSE
      LET pid == photos[k]
          branch == Classify(pid, matched, unprocessed)
          nxt ==
            CASE branch = "wrong" ->
                   [acc EXCEPT !.wrong = Append(@, << album_id, pid >>)]
              [] branch = "missed" ->
                   [acc EXCEPT !.missed = Append(@, << album_id, ToInt(pid) >>)]
              [] branch = "member" ->
                   LET pid_int == ToInt(pid)
                   IN  [acc EXCEPT
                          !.index = Put(@, pid_int,
                                        (IF pid_int \in DOMAIN @ THEN @[pid_int] ELSE << >>)
                                          \o << album_id >>),
                          !.items = Append(@, pid_int)]
              [] OTHER -> acc                                  \* continue
      IN  ScanPhotos(photos, k + 1, album_id, matched, unprocessed, nxt)

\* The loop over the albums of albums.json: st is [albums, index, missed, wrong].
RECURSIVE ScanAlbums(_, _, _, _, _)
ScanAlbums(manifest, k, matched, unprocessed, st) ==
    IF k > Len(manifest) THEN st
    ELSE
      LET album_json == manifest[k]
          r == ScanPhotos(album_json.photos, 1, album_json.id, matched, unprocessed,
                          [items |-> << >>, index |-> st.index,
                           missed |-> st.missed, wrong |-> st.wrong])
          album == [id |-> album_json.id, created |-> album_json.created,
                    items_ids |-> r.items]
          known == \E j \in 1..Len(st.albums) : st.albums[j].id = album_json.id
      IN  ScanAlbums(manifest, k + 1, matched, unprocessed,
                     [albums |-> IF known THEN st.albums ELSE Append(st.albums, album),
                      index |-> r.index, missed |-> r.missed, wrong |-> r.wrong])

\* Mutant: the filter left out
ItemsWithoutAlbumsAll(matched_keys, index) == matched_keys

\* [key for key in self.matched.keys() if key not in self.item_to_albums_index]
ItemsWithoutAlbums(matched_keys, index) ==
    SelectSeq(matched_keys, LAMBDA key : key \notin DOMAIN index)

\* FlickrArchive(zip_files, albums_file, items_metadata, items): the index after
\* _post_process.  manifest is << >> when no albums.json was found.
PostProcess(items, metadata, manifest) ==
    LET matched == MatchedKeys(items, metadata)
        st == ScanAlbums(manifest, 1, matched, UnprocessedKeys(metadata),
                         [albums |-> << >>, index |-> << >>,
                          missed |-> << >>, wrong |-> << >>])
    IN  [items |-> items,
         matched |-> KeysInOrder(matched),
         without_metadata |-> WithoutMetadata(items, metadata),
         without_items |-> WithoutItems(items, metadata),
         unprocessed_videos_metadata |-> UnprocessedKeys(metadata),
         albums |-> st.albums,
         item_to_albums_index |-> st.index,
         missed_items_in_albums |-> st.missed,
         wrong_items_in_albums |-> st.wrong,
         items_without_albums |-> ItemsWithoutAlbums(KeysInOrder(matched), st.index)]

\* --------------------------------------------------------- FlickrArchive.build
\* The files of an archive, as the patterns of build split their paths: a media file
\* <name>_<id>_o.<ext> (item_match_1, item_match_2, item_match_video), a metadata
\* file photo_<id>.json with the "original" it records (a path, as its segments),
\* albums.json, and any other file.  name and id are strings (their characters).
ItemFile(name, id) == [kind |-> "item", name |-> name, id |-> id]
MetadataFile(id, original) == [kind |-> "metadata", id |-> id, original |-> original]
AlbumsFile == [kind |-> "albums"]
OtherFile == [kind |-> "other"]

\* str(n), n >= 0
RECURSIVE ToStr(_)
ToStr(n) ==
    LET d == << "0", "1", "2", "3", "4", "5", "6", "7", "8", "9" >>[(n % 10) + 1]
    IN  IF n < 10 THEN << d >> ELSE ToStr(n \div 10) \o << d >>

\* _process_item_original_file(file, item_match, uid): main_item, and alt_item as a
\* sequence of none or one item.
ProcessItemOriginalFile(file, uid) ==
    LET item_id == ToInt(file.id)
        name == file.name
    IN  [main |-> [id |-> item_id, uid |-> uid, file |-> file, name |-> name],
         alt |-> IF IsNumeric(name)
                   THEN << [id |-> ToInt(name), uid |-> uid, file |-> file,
                            name |-> ToStr(item_id)] >>
                   ELSE << >>]

\* Mutant: the path is not split
IsUnprocessedVideoWholePath(original_name) == original_name = << "video_encoding.jpg" >>

\* ItemMetadata.is_unprocessed_video: self.original_name.split('/')[-1] == 'video_encoding.jpg'
IsUnprocessedVideo(original_name) ==
    original_name[Len(original_name)] = "video_encoding.jpg"

\* _process_item_metadata(file, zip_files, item_match)
ProcessItemMetadata(file) ==
    [id |-> ToInt(file.id), original_name |-> file.original,
     unprocessed |-> IsUnprocessedVideo(file.original)]

\* Mutant: `items[main_res.id] = main_res` whether the id is a key or not
StoreItemLastWins(items, file, uid) ==
    LET r == ProcessItemOriginalFile(file, uid)
        with_main == Put(items, r.main.id, r.main)
    IN  IF r.alt # << >> /\ r.alt[1].id \notin DOMAIN with_main
          THEN Put(with_main, r.alt[1].id, r.alt[1])
          ELSE with_main

\* The body of `for file_path in zf.namelist()` for an item file.
StoreItem(items, file, uid) ==
    LET r == ProcessItemOriginalFile(file, uid)
        with_main == IF r.main.id \in DOMAIN items THEN items      \* Duplicate item
                     ELSE Put(items, r.main.id, r.main)
    IN  IF r.alt # << >> /\ r.alt[1].id \notin DOMAIN with_main
          THEN Put(with_main, r.alt[1].id, r.alt[1])
          ELSE with_main

\* ... and for a metadata file.
StoreMetadata(items_metadata, file) ==
    LET item_metadata == ProcessItemMetadata(file)
    IN  IF item_metadata.id \in DOMAIN items_metadata THEN items_metadata   \* Duplicate
        ELSE Put(items_metadata, item_metadata.id, item_metadata)

\* build before the first file: zip_files, albums_file = None, items_metadata = {},
\* items = {}, items_ids = iter(range(0, 10**7))
ScanStart ==
    [n |-> 0, uid |-> 0, items |-> << >>, items_metadata |-> << >>,
     albums_file |-> FALSE, done |-> FALSE]

\* ------------------------------------------------------------ the archives
\* dog_1_o.jpg (2 bytes declared in the zip) and cat_2_o.jpg (no declared size,
\* 1 byte of content), with photo_1.json and photo_2.json.
ItemsOnDisk ==
    (1 :> [uid |-> 0, declared |-> 2, content |-> 2])
      @@ (2 :> [uid |-> 1, declared |-> 0, content |-> 1])

MetadataOnDisk == (1 :> [unprocessed |-> FALSE]) @@ (2 :> [unprocessed |-> FALSE])

\* albums.json: album "a" holds photo 1; photo 2 is in no album.
ManifestOnDisk == << [id |-> "a", created |-> 1, photos |-> << << "1" >> >>] >>

\* load_archives_and_log_info: FlickrArchive.build over the archives given.
ArchiveOnDisk == PostProcess(ItemsOnDisk, MetadataOnDisk, ManifestOnDisk)

\* albums.json of the export downloaded again later: photo 2 has been put in album
\* "a", before photo 1, and the export now has album "b", older than "a" and empty.
ManifestLater ==
    << [id |-> "a", created |-> 1, photos |-> << << "2" >>, << "1" >> >>],
       [id |-> "b", created |-> 0, photos |-> << >>] >>

ArchiveLater == PostProcess(ItemsOnDisk, MetadataOnDisk, ManifestLater)

\* Another export of the two photos: dog_1_o.jpg is 3 bytes declared in the zip (its
\* stream would give 5), cat_2_o.jpg is empty (no declared size, no content).
ItemsOfOddSizes ==
    (1 :> [uid |-> 0, declared |-> 3, content |-> 5])
      @@ (2 :> [uid |-> 1, declared |-> 0, content |-> 0])

ArchiveOfOddSizes == PostProcess(ItemsOfOddSizes, MetadataOnDisk, ManifestOnDisk)

\* albums.json of an export taken while the account had one more album, "b", younger
\* than "a" and empty.
ManifestMore ==
    << [id |-> "a", created |-> 1, photos |-> << << "1" >> >>],
       [id |-> "b", created |-> 2, photos |-> << >>] >>

ArchiveMore == PostProcess(ItemsOnDisk, MetadataOnDisk, ManifestMore)

\* albums.json that defines album "a" twice: with photo 1, and again with photo 2.
ManifestTwice ==
    << [id |-> "a", created |-> 1, photos |-> << << "1" >> >>],
       [id |-> "a", created |-> 1, photos |-> << << "2" >> >>] >>

ArchiveTwice == PostProcess(ItemsOnDisk, MetadataOnDisk, ManifestTwice)

\* ------------------------------------------------------------------- state
VARIABLES
    pool,              \* the archives a run may be started on (the --archive globs)
    archive,           \* FlickrArchive of the current run
    pc,                \* where the process is; "idle" before the first run
    db,                \* the store as the open connection sees it
    disk,              \* the store as committed
    remote_albums,     \* Google Photos: albums created, per archive album id
    remote_items,      \* Google Photos: media items created, per (item id, album id)
    album_rows,        \* upload_to_google_photos: albums (the rows fetched)
    ai,                \* index of album_row in album_rows
    ii,                \* index of item_id in the list being uploaded
    init_idx,          \* init_items_to_upload_to_google_photos: index
    album_id,          \* album of the current call, NoAlbum for items without albums
    album_google_id,
    item_id,
    item_status,
    item_google_id,
    retry,
    file_size,
    chunk_size,
    uploaded_bytes,
    calls,             \* remote calls made by the current upload_item_to_google_photos
    attempts,          \* passes of the current `while retry < 5` loop
    resp_status,       \* the answer to the last remote call of the current attempt
    nth,               \* upload_item_to_google_photos calls entered in this run
    scenario,          \* this run is, so far, the rate-limit simulation (RateLimitedItem)
    scan,              \* FlickrArchive.build: the locals of the loop over zf.namelist()
    albums_json,       \* the content of albums.json as _post_process parsed it
    built              \* the FlickrArchive that build returned

store == << db, disk >>
remote == << remote_albums, remote_items >>
run == << pool, archive, album_rows, ai, ii, init_idx >>
locals == << album_id, album_google_id, item_id, item_status, item_google_id,
             retry, file_size, chunk_size, uploaded_bytes, resp_status >>
ghosts == << calls, attempts >>
script == << nth, scenario >>
indexing == << scan, albums_json, built >>
uploading == << pc, store, remote, run, locals, ghosts, script >>
vars == << pc, store, remote, run, locals, ghosts, script, indexing >>

\* What a remote call may answer.  "too_many" is 429 Too Many Requests, "error"
\* any other failure (http_request's 599 included); "empty" is a 200 with an empty
\* body, "no_id" a 200 without an id.
StartResponses == {"ok", "too_many", "error"}
ChunkResponses == {"ok", "empty", "too_many", "error"}
BatchCreateResponses == {"ok", "too_many", "error"}
AlbumCreateResponses == {"ok", "no_id", "too_many", "error"}

Granularities == 1..MaxGranularity

\* init_db on a path with no database: init_tables
EmptyStore == [albums |-> << >>, items |-> << >>]

Key(item, album) == << item, album >>

AlbumIds(a) == {a.albums[j].id : j \in 1..Len(a.albums)}

\* archive.albums[album_id]
AlbumOf(a, id) == a.albums[CHOOSE j \in 1..Len(a.albums) : a.albums[j].id = id]

\* The archives the operator may run the script on.
Archives == {ArchiveOnDisk, ArchiveLater, ArchiveOfOddSizes, ArchiveTwice, ArchiveMore}

AllAlbumIds == UNION {AlbumIds(a) : a \in Archives}

AllKeys ==
    UNION {{Key(i, al) : i \in DOMAIN a.items, al \in AlbumIds(a) \cup {NoAlbum}} : a \in Archives}

\* No run is going on: the operator holds the archives given, and the file at
\* --db holds the rows given.
InitState(archives, rows) ==
    /\ pool = archives
    /\ archive \in pool
    /\ pc = "idle"
    /\ db = rows
    /\ disk = rows
    /\ remote_albums = [a \in AllAlbumIds |-> 0]
    /\ remote_items = [k \in AllKeys |-> 0]
    /\ album_rows = << >>
    /\ ai = 0
    /\ ii = 0
    /\ init_idx = 0
    /\ album_id = NoAlbum
    /\ album_google_id = NoId
    /\ item_id = 0
    /\ item_status = "none"
    /\ item_google_id = NoId
    /\ retry = 0
    /\ file_size = 0
    /\ chunk_size = 0
    /\ uploaded_bytes = 0
    /\ calls = 0
    /\ attempts = 0
    /\ resp_status = "none"
    /\ nth = 0
    /\ scenario = FALSE
    /\ scan = ScanStart
    /\ albums_json = << >>
    /\ built = PostProcess(<< >>, << >>, << >>)

\* The operator holds one export and runs the script on it, again and again.
Init == InitState({ArchiveOnDisk}, EmptyStore)


\* ------------------------------------------------------------ the process
\* "done": upload_to_google_photos returned 0; "returned_1": it returned 1;
\* "aborted": it raised GoogleAPILimitReached; "failed": it raised another exception,
\* which nothing catches; "crashed": the process was killed.
Stopped == {"idle", "done", "returned_1", "aborted", "failed", "crashed"}

\* The locals of a process that has not entered a call (or has left it).
NoLocals ==
    /\ album_id' = NoAlbum
    /\ album_google_id' = NoId
    /\ item_id' = 0
    /\ item_status' = "none"
    /\ item_google_id' = NoId
    /\ retry' = 0
    /\ file_size' = 0
    /\ chunk_size' = 0
    /\ uploaded_bytes' = 0
    /\ resp_status' = "none"

NoItemLocals ==
    /\ item_id' = 0
    /\ item_status' = "none"
    /\ item_google_id' = NoId
    /\ retry' = 0
    /\ file_size' = 0
    /\ chunk_size' = 0
    /\ uploaded_bytes' = 0
    /\ resp_status' = "none"

NoGhosts ==
    /\ calls' = 0
    /\ attempts' = 0

\* __main__, command upload-to-google-photo: upload_to_google_photos starts;
\* load_archives_and_log_info builds the archive and init_db opens the store.
StartRun ==
    /\ pc \in Stopped
    /\ UNCHANGED indexing
    /\ archive' \in pool
    /\ db' = disk
    /\ pc' = "init_albums"
    /\ album_rows' = << >>
    /\ ai' = 0
    /\ ii' = 0
    /\ init_idx' = 0
    /\ NoLocals
    /\ NoGhosts
    /\ nth' = 0
    /\ scenario' = (disk = EmptyStore)
    /\ UNCHANGED << pool, disk, remote >>

\* What may be missing where the script is run: the sqlite3 module (init_db returns
\* None), the Google client libraries (init_google_photos_api returns None).
Missing == {"sqlite3", "googleapiclient"}

\* upload_to_google_photos ends before it registers a row: `if db is None: return 1`,
\* or `gcreds, gclient = init_google_photos_api(...)` cannot unpack None (TypeError).
InitFails(what) ==
    /\ pc \in Stopped
    /\ UNCHANGED indexing
    /\ archive' \in pool
    /\ pc' = IF what = "sqlite3" THEN "returned_1" ELSE "failed"
    /\ db' = disk
    /\ album_rows' = << >>
    /\ ai' = 0
    /\ ii' = 0
    /\ init_idx' = 0
    /\ NoLocals
    /\ NoGhosts
    /\ nth' = 0
    /\ scenario' = FALSE
    /\ UNCHANGED << pool, disk, remote >>

\* The process is killed: what was not committed is lost.
Crash ==
    /\ pc \notin Stopped
    /\ UNCHANGED indexing
    /\ pc' = "crashed"
    /\ db' = disk
    /\ album_rows' = << >>
    /\ ai' = 0
    /\ ii' = 0
    /\ init_idx' = 0
    /\ NoLocals
    /\ NoGhosts
    /\ nth' = 0
    /\ scenario' = FALSE
    /\ UNCHANGED << pool, archive, disk, remote >>

\* ------------------------------------- init_albums_to_upload_to_google_photos
\* sorted(albums.items(), key=lambda x: x[1].created): stable
RECURSIVE SortedByCreated(_)
SortedByCreated(albums) ==
    IF albums = << >> THEN << >>
    ELSE LET m == CHOOSE j \in 1..Len(albums) :
                    /\ \A k \in 1..Len(albums) : albums[j].created <= albums[k].created
                    /\ \A k \in 1..(j - 1) : albums[k].created # albums[j].created
             rest == [k \in 1..(Len(albums) - 1) |-> IF k < m THEN albums[k] ELSE albums[k + 1]]
         IN  << albums[m] >> \o SortedByCreated(rest)

\* Mutant: the insert without the select
InsertAlbumPendingAlways(rows, id) ==
    Append(rows, [album_id |-> id, status |-> "none", google_id |-> NoId])

\* select seq_id ... where album_id = ?; insert into gphotos_albums (album_id) if none
InsertAlbumPending(rows, id) ==
    IF \E j \in 1..Len(rows) : rows[j].album_id = id
      THEN rows
      ELSE Append(rows, [album_id |-> id, status |-> "none", google_id |-> NoId])

RECURSIVE InsertAlbumsPending(_, _)
InsertAlbumsPending(rows, albums_sorted) ==
    IF albums_sorted = << >> THEN rows
    ELSE InsertAlbumsPending(InsertAlbumPending(rows, Head(albums_sorted).id),
                             Tail(albums_sorted))

InitAlbums ==
    /\ pc = "init_albums"
    /\ UNCHANGED indexing
    /\ db' = [db EXCEPT !.albums = InsertAlbumsPending(@, SortedByCreated(archive.albums))]
    /\ disk' = db'
    /\ pc' = "init_items"
    /\ init_idx' = 0
    /\ UNCHANGED script
    /\ UNCHANGED << pool, archive, album_rows, ai, ii, remote, locals, ghosts >>

\* -------------------------------------- init_items_to_upload_to_google_photos
\* `if index != 0 and index % 1000 == 0: db.commit()`
CommitEvery == 1000

\* Mutant: a commit in every pass of the loop
IsCommitPointAlways(index) == TRUE

\* `if index != 0 and index % 1000 == 0`
IsCommitPoint(index) == index # 0 /\ index % CommitEvery = 0

\* Mutant: insert or replace, without the select
InsertItemPendingReplace(rows, key) ==
    Put(rows, key, [status |-> "none", google_id |-> NoId])

\* select 1 from gphotos_items where item_id = ? and album_id = ? (or is null);
\* insert into gphotos_items (item_id, album_id) if none
InsertItemPending(rows, key) ==
    IF key \in DOMAIN rows
      THEN rows
      ELSE Put(rows, key, [status |-> "none", google_id |-> NoId])

RECURSIVE InsertItemsPending(_, _, _)
InsertItemsPending(rows, id, albums_ids) ==
    IF albums_ids = << >> THEN rows
    ELSE InsertItemsPending(InsertItemPending(rows, Key(id, Head(albums_ids))),
                            id, Tail(albums_ids))

\* item_to_albums_index.get(i.item.id, [None])
AlbumsOfItem(a, id) ==
    IF id \in DOMAIN a.item_to_albums_index THEN a.item_to_albums_index[id] ELSE << NoAlbum >>

\* One pass of the loop over items_with_metadata.values().
InitItemsStep ==
    /\ pc = "init_items"
    /\ UNCHANGED indexing
    /\ init_idx < Len(archive.matched)
    /\ LET id == archive.matched[init_idx + 1]
       IN  /\ disk' = IF IsCommitPoint(init_idx) THEN db ELSE disk
           /\ db' = [db EXCEPT !.items = InsertItemsPending(@, id, AlbumsOfItem(archive, id))]
    /\ init_idx' = init_idx + 1
    /\ UNCHANGED script
    /\ UNCHANGED << pc, pool, archive, album_rows, ai, ii, remote, locals, ghosts >>

\* The loop is over: db.commit().  Then upload_to_google_photos goes on.
InitItemsDone ==
    /\ pc = "init_items"
    /\ UNCHANGED indexing
    /\ init_idx >= Len(archive.matched)
    /\ disk' = db
    /\ pc' = "fetch_albums"
    /\ UNCHANGED script
    /\ UNCHANGED << db, pool, archive, album_rows, ai, ii, init_idx, remote, locals, ghosts >>


\* -------------------------------------------------- the loops' conditions
\* Mutant: `while retry <= 5`
RetryAllowedOffByOne(r) == r <= RetryCeiling

\* `while retry < 5`
RetryAllowed(r) == r < RetryCeiling

\* Mutant: the status test left out
NeedsUploadAlways(st) == TRUE

\* `if album_status == 'none'`, `if item_status == 'none'`
NeedsUpload(st) == st = "none"

\* A count that stops at max: the remote ids handed out, the calls and passes counted.
Count(n, max) == IF n < max THEN n + 1 ELSE max

\* The rate-limit simulation goes on with this answer to a remote call made for the
\* n-th item of the run: success before item RateLimitedItem, success or 429 for it.
Follows(n, resp) ==
    /\ scenario
    /\ n < RateLimitedItem => resp = "ok"
    /\ n = RateLimitedItem => resp \in {"ok", "too_many"}

\* ------------------------------------------------ upload_to_google_photos
\* albums = db.execute('select album_id, status, google_id from gphotos_albums
\*                      order by seq_id').fetchall()
FetchAlbums ==
    /\ pc = "fetch_albums"
    /\ UNCHANGED indexing
    /\ album_rows' = db.albums
    /\ ai' = 1
    /\ pc' = "albums_loop"
    /\ UNCHANGED script
    /\ UNCHANGED << store, remote, pool, archive, ii, init_idx, locals, ghosts >>

\* `for album_row in albums`: the next row, archive.albums[album_id] and the entry
\* of create_google_photos_album; after the last row, the items without albums.
AlbumNext ==
    /\ pc = "albums_loop"
    /\ UNCHANGED indexing
    /\ IF ai > Len(album_rows)
         THEN /\ pc' = "free_items"
              /\ ii' = 1
              /\ NoLocals
         ELSE LET row == album_rows[ai]
              IN  IF row.album_id \notin AlbumIds(archive)
                    THEN /\ pc' = "failed"          \* KeyError
                         /\ ii' = 0
                         /\ NoLocals
                    ELSE /\ album_id' = row.album_id
                         /\ album_google_id' = row.google_id
                         /\ retry' = 0
                         /\ pc' = IF NeedsUpload(row.status) THEN "album_attempt"
                                                             ELSE "album_return"
                         /\ UNCHANGED << ii, item_id, item_status, item_google_id,
                                         file_size, chunk_size, uploaded_bytes, resp_status >>
    /\ NoGhosts
    /\ UNCHANGED script
    /\ UNCHANGED << store, remote, pool, archive, album_rows, ai, init_idx >>

\* ---------------------------------------------- create_google_photos_album
\* Where the answer to gclient.albums().create(...).execute() leads.
AfterAlbumCreate(resp) ==
    CASE resp = "ok" -> "album_update"
      [] resp = "too_many" -> "aborted"              \* raise GoogleAPILimitReached()
      [] OTHER -> "album_retry"                      \* raise RetryException(...)

\* One pass of `while retry < 5` up to the answer of the create request.
AlbumCreate(resp) ==
    /\ pc = "album_attempt"
    /\ UNCHANGED indexing
    /\ RetryAllowed(retry)
    /\ attempts' = Count(attempts, RetryCeiling + 1)
    /\ resp_status' = resp
    /\ IF resp = "ok"
         THEN /\ remote_albums' = [remote_albums EXCEPT ![album_id] = Count(@, MaxRemote)]
              /\ album_google_id' = remote_albums'[album_id]
         ELSE UNCHANGED << remote_albums, album_google_id >>
    /\ pc' = AfterAlbumCreate(resp)
    /\ scenario' = (scenario /\ (nth < RateLimitedItem => resp = "ok"))
    /\ UNCHANGED nth
    /\ UNCHANGED << store, remote_items, run, album_id, item_id, item_status,
                    item_google_id, retry, file_size, chunk_size, uploaded_bytes, calls >>

\* update gphotos_albums set status = 'created', google_id = ? where album_id = ?
MarkAlbumCreated(rows, id, gid) ==
    [j \in 1..Len(rows) |->
        IF rows[j].album_id = id
          THEN [rows[j] EXCEPT !.status = "created", !.google_id = gid]
          ELSE rows[j]]

\* db.execute(update); db.commit(); and the loop goes round again.
AlbumUpdate ==
    /\ pc = "album_update"
    /\ UNCHANGED indexing
    /\ db' = [db EXCEPT !.albums = MarkAlbumCreated(@, album_id, album_google_id)]
    /\ disk' = db'
    /\ pc' = "album_attempt"
    /\ resp_status' = "none"
    /\ UNCHANGED script
    /\ UNCHANGED << remote, run, album_id, album_google_id, item_id, item_status,
                    item_google_id, retry, file_size, chunk_size, uploaded_bytes, ghosts >>

\* except RetryException: retry += 1
AlbumRetry ==
    /\ pc = "album_retry"
    /\ UNCHANGED indexing
    /\ retry' = retry + 1
    /\ pc' = "album_attempt"
    /\ resp_status' = "none"
    /\ UNCHANGED script
    /\ UNCHANGED << store, remote, run, album_id, album_google_id, item_id, item_status,
                    item_google_id, file_size, chunk_size, uploaded_bytes, ghosts >>

\* The loop's condition fails: return album_google_id.
AlbumLoopExit ==
    /\ pc = "album_attempt"
    /\ UNCHANGED indexing
    /\ ~RetryAllowed(retry)
    /\ pc' = "album_return"
    /\ UNCHANGED script
    /\ UNCHANGED << store, remote, run, locals, ghosts >>

\* Mutant: the test left out, the items are uploaded whatever the album's remote id
AlbumSkippedNever(google_id) == FALSE

\* `if album_google_id is None`
AlbumSkipped(google_id) == google_id = NoId

\* Back in upload_to_google_photos: `if album_google_id is None: ... continue`
AlbumReturn ==
    /\ pc = "album_return"
    /\ UNCHANGED indexing
    /\ IF AlbumSkipped(album_google_id)
         THEN /\ ai' = ai + 1
              /\ pc' = "albums_loop"
              /\ UNCHANGED ii
         ELSE /\ ii' = 1
              /\ pc' = "album_items"
              /\ UNCHANGED ai
    /\ retry' = 0
    /\ NoGhosts
    /\ UNCHANGED script
    /\ UNCHANGED << store, remote, pool, archive, album_rows, init_idx, album_id,
                    album_google_id, item_id, item_status, item_google_id, file_size,
                    chunk_size, uploaded_bytes, resp_status >>

\* Mutant: `for index, item_id in enumerate(reversed(album.items_ids))`
AlbumItemsBackwards ==
    /\ pc = "album_items"
    /\ UNCHANGED indexing
    /\ LET items_ids == AlbumOf(archive, album_id).items_ids
       IN  IF ii > Len(items_ids)
             THEN /\ ai' = ai + 1
                  /\ pc' = "albums_loop"
                  /\ UNCHANGED item_id
             ELSE /\ item_id' = items_ids[Len(items_ids) + 1 - ii]
                  /\ pc' = "item_lookup"
                  /\ UNCHANGED ai
    /\ UNCHANGED script
    /\ UNCHANGED << store, remote, pool, archive, album_rows, ii, init_idx, album_id,
                    album_google_id, item_status, item_google_id, retry, file_size,
                    chunk_size, uploaded_bytes, resp_status, ghosts >>

\* `for index, item_id in enumerate(album.items_ids)`
AlbumItems ==
    /\ pc = "album_items"
    /\ UNCHANGED indexing
    /\ LET items_ids == AlbumOf(archive, album_id).items_ids
       IN  IF ii > Len(items_ids)
             THEN /\ ai' = ai + 1
                  /\ pc' = "albums_loop"
                  /\ UNCHANGED item_id
             ELSE /\ item_id' = items_ids[ii]
                  /\ pc' = "item_lookup"
                  /\ UNCHANGED ai
    /\ UNCHANGED script
    /\ UNCHANGED << store, remote, pool, archive, album_rows, ii, init_idx, album_id,
                    album_google_id, item_status, item_google_id, retry, file_size,
                    chunk_size, uploaded_bytes, resp_status, ghosts >>

\* `for index, item_id in enumerate(archive.items_without_albums)`, and the end of
\* upload_to_google_photos: db.commit(), db.close(), return 0.
FreeItems ==
    /\ pc = "free_items"
    /\ UNCHANGED indexing
    /\ IF ii > Len(archive.items_without_albums)
         THEN /\ pc' = "done"
              /\ disk' = db
              /\ UNCHANGED << db, item_id >>
         ELSE /\ item_id' = archive.items_without_albums[ii]
              /\ pc' = "item_lookup"
              /\ UNCHANGED store
    /\ UNCHANGED script
    /\ UNCHANGED << remote, run, album_id, album_google_id, item_status, item_google_id,
                    retry, file_size, chunk_size, uploaded_bytes, resp_status, ghosts >>

\* -------------------------------------------- upload_item_to_google_photos
\* Mutant: the stream is never measured
FileSizeDeclared(file) == file.declared

\* archive.zip_files.file_size(item.file), and len(fp.read()) when that is 0
FileSize(file) == IF file.declared # 0 THEN file.declared ELSE file.content

\* Where the answer to the session start request leads: `if status != http.HTTPStatus.OK`
AfterStart(resp) == IF resp = "ok" THEN "item_chunk" ELSE "item_retry"

\* Mutant: `is_last_chunk = uploaded_bytes > file_size`
IsLastChunkPastEnd(uploaded, size) == uploaded > size

\* `is_last_chunk = uploaded_bytes >= file_size`, uploaded_bytes counting this chunk
IsLastChunk(uploaded, size) == uploaded >= size

\* chunk_req: the X-Goog-Upload-Offset and X-Goog-Upload-Command of the chunk request
\* sent when `uploaded` bytes have gone in the chunks before it.
ChunkRequest(uploaded, chunk, size) ==
    [offset |-> uploaded,
     command |-> IF IsLastChunk(uploaded + chunk, size) THEN "upload, finalize" ELSE "upload"]

\* Where the answer to a chunk request leads.
AfterChunk(resp, is_last_chunk) ==
    IF resp \notin {"ok", "empty"} THEN "item_retry"     \* unable to upload chunk
    ELSE IF ~is_last_chunk THEN "item_chunk"
    ELSE IF resp = "empty" THEN "item_retry"             \* len(upload_token) == 0
    ELSE "item_batch"

\* Mutant: an HttpError other than 429 is swallowed instead of raised as
\* RetryException, and the update goes ahead.
AfterBatchCreateSwallow(resp) ==
    CASE resp = "too_many" -> "aborted"
      [] OTHER -> "item_update"

\* Where the answer to gclient.mediaItems().batchCreate(body=body).execute() leads.
AfterBatchCreate(resp) ==
    CASE resp = "ok" -> "item_update"
      [] resp = "too_many" -> "aborted"              \* raise GoogleAPILimitReached()
      [] OTHER -> "item_retry"                       \* raise RetryException(...)

\* The entry: select status, google_id from gphotos_items where item_id = ? and
\* album_id = ? (or is null); item_status = item_row[0]; `if item_status == 'none'`
ItemLookup ==
    /\ pc = "item_lookup"
    /\ UNCHANGED indexing
    /\ IF Key(item_id, album_id) \notin DOMAIN db.items
         THEN /\ pc' = "failed"                      \* item_row is None: TypeError
              /\ UNCHANGED << item_status, item_google_id >>
         ELSE LET item_row == db.items[Key(item_id, album_id)]
              IN  /\ item_status' = item_row.status
                  /\ item_google_id' = item_row.google_id
                  /\ pc' = IF NeedsUpload(item_row.status) THEN "item_attempt"
                                                           ELSE "item_return"
    /\ retry' = 0
    /\ NoGhosts
    /\ nth' = Count(nth, Len(archive.matched) + 1)
    /\ UNCHANGED scenario
    /\ UNCHANGED << store, remote, run, album_id, album_google_id, item_id, file_size,
                    chunk_size, uploaded_bytes, resp_status >>

\* One pass of `while retry < 5` begins: the payload size.
ItemAttempt ==
    /\ pc = "item_attempt"
    /\ UNCHANGED indexing
    /\ RetryAllowed(retry)
    /\ attempts' = Count(attempts, RetryCeiling + 1)
    /\ LET size == FileSize(archive.items[item_id])
       IN  IF size = 0
             THEN /\ pc' = "item_retry"              \* unable to get item size
                  /\ file_size' = 0
             ELSE /\ pc' = "item_start"
                  /\ file_size' = size
    /\ UNCHANGED script
    /\ UNCHANGED << store, remote, run, album_id, album_google_id, item_id, item_status,
                    item_google_id, retry, chunk_size, uploaded_bytes, resp_status, calls >>

\* POST /v1/uploads, X-Goog-Upload-Command: start
ItemStart(resp, granularity) ==
    /\ pc = "item_start"
    /\ UNCHANGED indexing
    /\ calls' = Count(calls, MaxCalls)
    /\ resp_status' = resp
    /\ pc' = AfterStart(resp)
    /\ scenario' = Follows(nth, resp)
    /\ UNCHANGED nth
    /\ IF resp = "ok"
         THEN /\ chunk_size' = granularity
              /\ uploaded_bytes' = 0
         ELSE UNCHANGED << chunk_size, uploaded_bytes >>
    /\ UNCHANGED << store, remote, run, album_id, album_google_id, item_id, item_status,
                    item_google_id, retry, file_size, attempts >>

\* One pass of `while True`: POST upload_url, X-Goog-Upload-Offset: chunk_start
ItemChunk(resp) ==
    /\ pc = "item_chunk"
    /\ UNCHANGED indexing
    /\ uploaded_bytes' = uploaded_bytes + chunk_size
    /\ calls' = Count(calls, MaxCalls)
    /\ resp_status' = resp
    /\ pc' = AfterChunk(resp, IsLastChunk(uploaded_bytes', file_size))
    /\ scenario' = Follows(nth, resp)
    /\ UNCHANGED nth
    /\ UNCHANGED << store, remote, run, album_id, album_google_id, item_id, item_status,
                    item_google_id, retry, file_size, chunk_size, attempts >>

\* gclient.mediaItems().batchCreate(body=body).execute()
ItemBatchCreate(resp) ==
    /\ pc = "item_batch"
    /\ UNCHANGED indexing
    /\ calls' = Count(calls, MaxCalls)
    /\ resp_status' = resp
    /\ IF resp = "ok"
         THEN /\ remote_items' = [remote_items EXCEPT
                                    ![Key(item_id, album_id)] = Count(@, MaxRemote)]
              /\ item_google_id' = remote_items'[Key(item_id, album_id)]
         ELSE UNCHANGED << remote_items, item_google_id >>
    /\ pc' = AfterBatchCreate(resp)
    /\ scenario' = Follows(nth, resp)
    /\ UNCHANGED nth
    /\ UNCHANGED << store, remote_albums, run, album_id, album_google_id, item_id,
                    item_status, retry, file_size, chunk_size, uploaded_bytes, attempts >>

\* update gphotos_items set status = 'uploaded', google_id = ? where item_id = ? and
\* album_id = ? (or is null)
MarkItemUploaded(rows, key, gid) ==
    [k \in DOMAIN rows |->
        IF k = key THEN [status |-> "uploaded", google_id |-> gid] ELSE rows[k]]

\* db.execute(update); db.commit(); and the loop goes round again.
ItemUpdate ==
    /\ pc = "item_update"
    /\ UNCHANGED indexing
    /\ db' = [db EXCEPT !.items = MarkItemUploaded(@, Key(item_id, album_id), item_google_id)]
    /\ disk' = db'
    /\ pc' = "item_attempt"
    /\ file_size' = 0
    /\ chunk_size' = 0
    /\ uploaded_bytes' = 0
    /\ resp_status' = "none"
    /\ UNCHANGED script
    /\ UNCHANGED << remote, run, album_id, album_google_id, item_id, item_status,
                    item_google_id, retry, ghosts >>

\* except RetryException: retry += 1
ItemRetry ==
    /\ pc = "item_retry"
    /\ UNCHANGED indexing
    /\ retry' = retry + 1
    /\ pc' = "item_attempt"
    /\ file_size' = 0
    /\ chunk_size' = 0
    /\ uploaded_bytes' = 0
    /\ resp_status' = "none"
    /\ UNCHANGED script
    /\ UNCHANGED << store, remote, run, album_id, album_google_id, item_id, item_status,
                    item_google_id, ghosts >>

\* The loop's condition fails: return item_google_id.
ItemLoopExit ==
    /\ pc = "item_attempt"
    /\ UNCHANGED indexing
    /\ ~RetryAllowed(retry)
    /\ pc' = "item_return"
    /\ UNCHANGED script
    /\ UNCHANGED << store, remote, run, locals, ghosts >>

\* Back in upload_to_google_photos: the next item of the loop that made the call.
ItemReturn ==
    /\ pc = "item_return"
    /\ UNCHANGED indexing
    /\ ii' = ii + 1
    /\ pc' = IF album_id = NoAlbum THEN "free_items" ELSE "album_items"
    /\ NoItemLocals
    /\ NoGhosts
    /\ scenario' = (scenario /\ (nth = RateLimitedItem => item_google_id = NoId))
    /\ UNCHANGED nth
    /\ UNCHANGED << store, remote, pool, archive, album_rows, ai, init_idx, album_id,
                    album_google_id >>

\* ------------------------------------------------------------------ __main__
\* The exit status of the process, by the way upload_to_google_photos ended: its
\* return value is dropped and GoogleAPILimitReached is caught and logged, so the
\* script runs off its end (status 0); an exception that nothing catches ends the
\* interpreter with status 1.
ExitStatus(end) == IF end = "failed" THEN 1 ELSE 0

\* ------------------------------------------------------------ specification
Next ==
    \/ StartRun
    \/ \E what \in Missing : InitFails(what)
    \/ Crash
    \/ InitAlbums
    \/ InitItemsStep
    \/ InitItemsDone
    \/ FetchAlbums
    \/ AlbumNext
    \/ \E resp \in AlbumCreateResponses : AlbumCreate(resp)
    \/ AlbumUpdate
    \/ AlbumRetry
    \/ AlbumLoopExit
    \/ AlbumReturn
    \/ AlbumItems
    \/ FreeItems
    \/ ItemLookup
    \/ ItemAttempt
    \/ \E resp \in StartResponses, granularity \in Granularities : ItemStart(resp, granularity)
    \/ \E resp \in ChunkResponses : ItemChunk(resp)
    \/ \E resp \in BatchCreateResponses : ItemBatchCreate(resp)
    \/ ItemUpdate
    \/ ItemRetry
    \/ ItemLoopExit
    \/ ItemReturn

Spec == Init /\ [][Next]_vars

\* The process takes its next step: a running script is not suspended for ever, and
\* every remote call returns (http_request and execute() block until an answer).
Step ==
    \/ InitAlbums \/ InitItemsStep \/ InitItemsDone \/ FetchAlbums \/ AlbumNext
    \/ \E resp \in AlbumCreateResponses : AlbumCreate(resp)
    \/ AlbumUpdate \/ AlbumRetry \/ AlbumLoopExit \/ AlbumReturn \/ AlbumItems \/ FreeItems
    \/ ItemLookup \/ ItemAttempt
    \/ \E resp \in StartResponses, granularity \in Granularities : ItemStart(resp, granularity)
    \/ \E resp \in ChunkResponses : ItemChunk(resp)
    \/ \E resp \in BatchCreateResponses : ItemBatchCreate(resp)
    \/ ItemUpdate \/ ItemRetry \/ ItemLoopExit \/ ItemReturn

FairSpec == Spec /\ WF_vars(Step)

\* The rows that a run leaves when it is stopped right after
\* init_items_to_upload_to_google_photos has returned.
RECURSIVE AllItemsPending(_, _, _)
AllItemsPending(rows, a, k) ==
    IF k > Len(a.matched) THEN rows
    ELSE AllItemsPending(InsertItemsPending(rows, a.matched[k], AlbumsOfItem(a, a.matched[k])),
                         a, k + 1)

Registered(a) ==
    [albums |-> InsertAlbumsPending(<< >>, SortedByCreated(a.albums)),
     items |-> AllItemsPending(<< >>, a, 1)]

\* The operator has run the script on the first export, which registered its rows,
\* and from now on runs it on the later export, against the same store.
InitLater == InitState({ArchiveLater}, Registered(ArchiveOnDisk))

LaterSpec == InitLater /\ [][Next]_vars

\* The operator holds the first export and the export with one more album, and runs
\* the script on either, against one store.
InitTwoExports == InitState({ArchiveOnDisk, ArchiveMore}, EmptyStore)

TwoExportsSpec == InitTwoExports /\ [][Next]_vars

\* The operator holds the first export and the export of odd sizes, and runs the
\* script on either, against one store.
InitSizes == InitState({ArchiveOnDisk, ArchiveOfOddSizes}, EmptyStore)

SizesSpec == InitSizes /\ [][Next]_vars

\* The operator holds the export whose albums.json defines an album twice, and the
\* remote service answers every call with success: a run ends when it returns or
\* when the operator kills it.
InitSmooth == InitState({ArchiveTwice}, EmptyStore)

SmoothNext ==
    \/ StartRun
    \/ Crash
    \/ InitAlbums
    \/ InitItemsStep
    \/ InitItemsDone
    \/ FetchAlbums
    \/ AlbumNext
    \/ AlbumCreate("ok")
    \/ AlbumUpdate
    \/ AlbumReturn
    \/ AlbumItems
    \/ FreeItems
    \/ ItemLookup
    \/ ItemAttempt
    \/ \E granularity \in Granularities : ItemStart("ok", granularity)
    \/ ItemChunk("ok")
    \/ ItemBatchCreate("ok")
    \/ ItemUpdate
    \/ ItemReturn

SmoothSpec == InitSmooth /\ [][SmoothNext]_vars

\* The index of a large export: BatchItems photos p_<id>_o.jpg of one byte, each with
\* its photo_<id>.json, and no albums.json.
ArchiveBatch ==
    [items |-> [id \in 1..BatchItems |-> [uid |-> id - 1, declared |-> 1, content |-> 1]],
     matched |-> [k \in 1..BatchItems |-> k],
     without_metadata |-> {},
     without_items |-> {},
     unprocessed_videos_metadata |-> {},
     albums |-> << >>,
     item_to_albums_index |-> << >>,
     missed_items_in_albums |-> << >>,
     wrong_items_in_albums |-> << >>,
     items_without_albums |-> [k \in 1..BatchItems |-> k]]

\* The operator runs the script on the large export; the process is watched up to
\* the return of init_items_to_upload_to_google_photos, and may be killed and
\* started again at any point before.
InitBatch == InitState({ArchiveBatch}, EmptyStore)

BatchNext ==
    \/ StartRun
    \/ Crash
    \/ InitAlbums
    \/ InitItemsStep
    \/ InitItemsDone

BatchSpec == InitBatch /\ [][BatchNext]_vars

\* ------------------------------------------------- the index of the archives
\* The files an archive may hold.  Media files: names "x" (not numeric), "1", "2";
\* ids "1", "2".  Metadata files: for ids 1 and 2, of a picture or of a video that
\* Flickr has not encoded.
Names == {<< "x" >>, << "1" >>, << "2" >>}
Ids == {<< "1" >>, << "2" >>}
Originals == {<< "cat.jpg" >>, << "d", "video_encoding.jpg" >>}

Files ==
    {ItemFile(name, id) : name \in Names, id \in Ids}
      \cup {MetadataFile(id, original) : id \in Ids, original \in Originals}
      \cup {AlbumsFile, OtherFile}

\* What albums.json may hold: the lists of photo ids of an album, the definitions of
\* an album, and the manifests of no, one or two definitions.
PhotoLists ==
    {<< >>,
     << << "0" >>, << "1" >> >>,
     << << "1" >>, << "0", "2" >> >>,
     << << "2" >>, << "1" >> >>,
     << << "x" >>, << "2" >> >>,
     << << "1" >>, << "1" >> >>}

AlbumDefs == {[id |-> id, created |-> 1, photos |-> photos] :
                 id \in {"a", "b"}, photos \in PhotoLists}

Manifests ==
    {<< >>} \cup {<< d >> : d \in AlbumDefs} \cup {<< d, e >> : d, e \in AlbumDefs}

\* One pass of `for file_path in zf.namelist()`.
ScanFile(file) ==
    /\ ~scan.done
    /\ scan.n < MaxFiles
    /\ scan' =
         CASE file.kind = "albums" ->
                [scan EXCEPT !.n = @ + 1, !.albums_file = TRUE]
           [] file.kind = "item" ->
                [scan EXCEPT !.n = @ + 1, !.uid = @ + 1,
                             !.items = StoreItem(@, file, scan.uid)]
           [] file.kind = "metadata" ->
                [scan EXCEPT !.n = @ + 1,
                             !.items_metadata = StoreMetadata(@, file)]
           [] OTHER -> [scan EXCEPT !.n = @ + 1]       \* Unknown file in archive
    /\ UNCHANGED << albums_json, built >>
    /\ UNCHANGED uploading

\* return FlickrArchive(zip_files, albums_file, items_metadata, items): __init__ runs
\* _post_process, which parses albums.json (content) if the archives held one.
BuildDone(content) ==
    /\ ~scan.done
    /\ ~scan.albums_file => content = << >>
    /\ scan' = [scan EXCEPT !.done = TRUE]
    /\ albums_json' = content
    /\ built' = PostProcess(scan.items, scan.items_metadata, content)
    /\ UNCHANGED uploading

IndexNext ==
    \/ \E file \in Files : ScanFile(file)
    \/ \E content \in Manifests : BuildDone(content)

IndexSpec == Init /\ [][IndexNext]_vars

\* ------------------------------------------------------------------ claims
CurrentKey == Key(item_id, album_id)

\* The passes of the item loop past its head: a request is being made.
InItemAttempt == pc \in {"item_start", "item_chunk", "item_batch"}

\* C1: over any sequence of runs against the same store, the remote batch create
\* succeeds at most once for each (item id, album id or none) pair.
C1_PairRegisteredAtMostOnce == \A k \in DOMAIN remote_items : remote_items[k] <= 1

\* C2: a call of upload_item_to_google_photos for a pending pair makes at most
\* RetryCeiling passes of its loop, and makes no pass after one that succeeded
\* (item_google_id is None until a pass succeeds, the row being pending).
C2_NoAttemptAfterSuccess ==
    /\ InItemAttempt => item_google_id = NoId
    /\ (InItemAttempt \/ pc \in {"item_attempt", "item_retry", "item_update", "item_return"})
         => attempts <= RetryCeiling

\* C3: a call of upload_item_to_google_photos for a pair whose row is 'uploaded'
\* goes from its entry straight to its return with the stored remote id, having made
\* no remote call, and neither the entry nor the return changes the store or the
\* remote library (so a second call finds the same row and returns the same id).
C3_UploadedIsSkipped ==
    [][/\ (/\ pc = "item_lookup"
           /\ CurrentKey \in DOMAIN db.items
           /\ db.items[CurrentKey].status = "uploaded")
          => \/ pc' = "crashed"
             \/ /\ pc' = "item_return"
                /\ item_status' = "uploaded"
                /\ item_google_id' = db.items[CurrentKey].google_id
                /\ calls' = 0
                /\ UNCHANGED << store, remote >>
       /\ (pc = "item_return" /\ item_status = "uploaded")
          => /\ calls = 0
             /\ item_google_id = db.items[CurrentKey].google_id
             /\ item_google_id # NoId
             /\ UNCHANGED << disk, remote >>
             /\ pc' # "crashed" => UNCHANGED db
      ]_vars

\* C3, witness: such a call has returned.
C3_Witness ==
    /\ pc = "item_return"
    /\ item_status = "uploaded"
    /\ calls = 0
    /\ item_google_id = disk.items[CurrentKey].google_id

\* The pairs of an archive in the order a run on a fresh store visits them.
RECURSIVE KeysOfAlbums(_)
KeysOfAlbums(albums) ==
    IF albums = << >> THEN << >>
    ELSE [j \in 1..Len(Head(albums).items_ids) |-> Key(Head(albums).items_ids[j], Head(albums).id)]
           \o KeysOfAlbums(Tail(albums))

VisitOrder(a) ==
    KeysOfAlbums(SortedByCreated(a.albums))
      \o [j \in 1..Len(a.items_without_albums) |-> Key(a.items_without_albums[j], NoAlbum)]

\* The end the rate-limit simulation must have: the run aborted in its
\* RateLimitedItem-th item, the items before it 'uploaded', it and the later ones pending.
C4_GoodEnd ==
    /\ pc = "aborted"
    /\ nth = RateLimitedItem
    /\ \A j \in 1..Len(VisitOrder(archive)) :
          LET k == VisitOrder(archive)[j]
          IN  /\ k \in DOMAIN disk.items
              /\ disk.items[k].status = IF j < RateLimitedItem THEN "uploaded" ELSE "none"

\* C4: a run on a fresh store in which every remote call succeeds for the items before
\* item RateLimitedItem and a remote call for that item answers 429 ends with the
\* earlier items 'uploaded', that item and the later ones pending, nothing later
\* processed: every run that starts as the simulation leaves it or comes to that end.
C4_RateLimitSimulation == (pc = "init_albums" /\ scenario) ~> (~scenario \/ C4_GoodEnd)

\* C5: once a remote call has answered 429, the attempt is not retried: the run is
\* aborted (the answer of the attempt's last call is 429 only in an aborted run).
C5_RateLimitAborts == resp_status = "too_many" => pc = "aborted"

ItemRowChanges(t, u, k) == k \in DOMAIN t.items /\ k \in DOMAIN u.items /\ u.items[k] # t.items[k]
AlbumRowChanges(t, u, j) == j <= Len(t.albums) /\ j <= Len(u.albums) /\ u.albums[j] # t.albums[j]

\* C7: the status and remote id of an item row or album row change only in the step
\* that follows the success of the create request of the same attempt, and to
\* 'uploaded' / 'created' with the id that request returned; no other step of an
\* attempt (a failure, a retry, a 429) changes a row.
C7_WrittenOnlyOnSuccess ==
    [][/\ \A k \in DOMAIN db.items \cup DOMAIN disk.items :
            (ItemRowChanges(db, db', k) \/ ItemRowChanges(disk, disk', k))
              => /\ pc = "item_update"
                 /\ resp_status = "ok"
                 /\ k = CurrentKey
                 /\ item_google_id # NoId
                 /\ db'.items[k] = [status |-> "uploaded", google_id |-> item_google_id]
                 /\ disk'.items[k] = db'.items[k]
       /\ \A j \in 1..Len(db.albums) :
            (AlbumRowChanges(db, db', j) \/ AlbumRowChanges(disk, disk', j))
              => /\ pc = "album_update"
                 /\ resp_status = "ok"
                 /\ db.albums[j].album_id = album_id
                 /\ album_google_id # NoId
                 /\ db'.albums[j] = [album_id |-> album_id, status |-> "created",
                                     google_id |-> album_google_id]
                 /\ disk'.albums[j] = db'.albums[j]
      ]_vars

\* C7, witness: an item row and an album row have been written, and an attempt has
\* just failed.
C7_Witness ==
    /\ pc = "item_retry"
    /\ \E k \in DOMAIN disk.items : disk.items[k].status = "uploaded"
    /\ \E j \in 1..Len(disk.albums) : disk.albums[j].status = "created"
    /\ disk.items[CurrentKey].status = "none"

\* C8: in the store, no row is deleted, an 'uploaded' item row stays 'uploaded' and a
\* 'created' album row stays 'created', whatever step is taken (the row
\* initialisation of every start included).
C8_StatusMovesForward ==
    [][/\ DOMAIN disk.items \subseteq DOMAIN disk'.items
       /\ \A k \in DOMAIN disk.items :
            disk.items[k].status = "uploaded" => disk'.items[k].status = "uploaded"
       /\ \A k \in DOMAIN db.items \cap DOMAIN db'.items :
            db.items[k].status = "uploaded" => db'.items[k].status = "uploaded"
       /\ Len(disk.albums) <= Len(disk'.albums)
       /\ \A j \in 1..Len(disk.albums) :
            /\ disk'.albums[j].album_id = disk.albums[j].album_id
            /\ disk.albums[j].status = "created" => disk'.albums[j].status = "created"
      ]_vars

\* C8, witness: the row initialisation has run again on a store that holds an
\* 'uploaded' item row and a 'created' album row, and they are still so.
C8_Witness ==
    /\ pc = "fetch_albums"
    /\ \E k \in DOMAIN disk.items : disk.items[k].status = "uploaded"
    /\ \E j \in 1..Len(disk.albums) : disk.albums[j].status = "created"

\* C9: once a remote id is recorded in an item row or an album row, no later step
\* writes that row: the row, and so the stored remote id, stays as it is.
C9_RemoteIdWrittenOnce ==
    [][/\ \A k \in DOMAIN disk.items :
            disk.items[k].google_id # NoId
              => k \in DOMAIN disk'.items /\ disk'.items[k] = disk.items[k]
       /\ \A j \in 1..Len(disk.albums) :
            disk.albums[j].google_id # NoId
              => j <= Len(disk'.albums) /\ disk'.albums[j] = disk.albums[j]
      ]_vars

\* C10: a call of create_google_photos_album for a pending album makes no create
\* request after one that succeeded (album_google_id is None until then), and at most
\* RetryCeiling create requests.
C10_AlbumCreatedOnce ==
    /\ pc = "album_update"
         => \A j \in 1..Len(db.albums) :
                db.albums[j].album_id = album_id => db.albums[j].status = "none"
    /\ pc \in {"album_attempt", "album_update", "album_retry", "album_return"}
         => attempts <= RetryCeiling

\* The creation timestamp of the album of row j of the rows fetched.
CreatedOfRow(j) == AlbumOf(archive, album_rows[j].album_id).created

\* C11: in every run, a re-run against a store that holds album rows of earlier runs
\* included, the albums are visited in ascending order of their creation timestamp:
\* while an album is being visited, no album visited before it in the run is younger.
C11_AlbumsInCreationOrder ==
    (pc \notin Stopped \cup {"albums_loop"} /\ album_id # NoAlbum)
      => \A j \in 1..(ai - 1) : CreatedOfRow(j) <= CreatedOfRow(ai)

\* The list that the loop making the current call of upload_item_to_google_photos
\* goes through.
CurrentList ==
    IF album_id = NoAlbum THEN archive.items_without_albums
    ELSE (CHOOSE al \in {archive.albums[j] : j \in 1..Len(archive.albums)} :
             al.id = album_id).items_ids

Range(f) == {f[x] : x \in DOMAIN f}

MatchedOfBuilt == Range(built.matched)

\* C13: after _post_process the keys of matched are exactly the keys of items that are
\* keys of metadata, each once, and none of them is in without_metadata or in
\* without_items.
C13_MatchedIsIntersection ==
    scan.done
      => /\ MatchedOfBuilt = DOMAIN scan.items \cap DOMAIN scan.items_metadata
         /\ Len(built.matched) = Cardinality(MatchedOfBuilt)
         /\ MatchedOfBuilt \cap built.without_metadata = {}
         /\ MatchedOfBuilt \cap built.without_items = {}

\* C13, witness: an index with a matched item, and an item without metadata or a
\* metadata without item.
C13_Witness ==
    /\ scan.done
    /\ MatchedOfBuilt # {}
    /\ built.without_metadata \cup built.without_items # {}
    /\ DOMAIN scan.items # DOMAIN scan.items_metadata

\* C14: a media file with a numeric name yields two candidate items with the ids
\* swapped and one uid; and in the index built from any files, an item that comes
\* from such a file, one of whose two candidate ids is a metadata key, has no item of
\* its uid in without_metadata.
C14_EitherIdCoversTheFile ==
    /\ \A file \in Files, uid \in 0..MaxFiles :
          (file.kind = "item" /\ IsNumeric(file.name))
            => LET r == ProcessItemOriginalFile(file, uid)
               IN  /\ Len(r.alt) = 1
                   /\ r.main.uid = uid /\ r.alt[1].uid = uid
                   /\ r.main.id = ToInt(file.id) /\ r.alt[1].id = ToInt(file.name)
                   /\ ToInt(r.main.name) = r.alt[1].id /\ ToInt(r.alt[1].name) = r.main.id
    /\ scan.done
         => \A k \in DOMAIN built.items :
               LET item == built.items[k]
               IN  (/\ IsNumeric(item.name)
                    /\ {item.id, ToInt(item.name)} \cap DOMAIN scan.items_metadata # {})
                     => \A w \in built.without_metadata : built.items[w].uid # item.uid

\* What the loop over the photos of definition d of albums.json has collected after
\* n of them (the album's own list, and the pairs it adds to the two lists of errors).
ScanOf(d, n) ==
    ScanPhotos(SubSeq(d.photos, 1, n), 1, d.id, MatchedOfBuilt,
               built.unprocessed_videos_metadata,
               [items |-> << >>, index |-> << >>, missed |-> << >>, wrong |-> << >>])

\* The lists that grew by one between two points of that loop.
AppendedTo(before, after) ==
    {l \in {"items", "missed", "wrong"} : Len(after[l]) = Len(before[l]) + 1}

IsFirstDefinition(k) == \A h \in 1..(k - 1) : albums_json[h].id # albums_json[k].id

\* C15: every photo id of an album definition other than "0" goes to exactly one of:
\* the album's items_ids, the unprocessed videos (appended nowhere), the missed items,
\* the wrong items; "0" goes to none.  The lists of the index hold what the loop
\* collected: "0" is in no list of the index.
C15_ExactlyOneClass ==
    scan.done
      => /\ \A k \in 1..Len(albums_json) :
               LET d == albums_json[k]
               IN  /\ \A j \in 1..Len(d.photos) :
                        LET pid == d.photos[j]
                            video == /\ IsNumeric(pid)
                                     /\ ToInt(pid) \in built.unprocessed_videos_metadata
                            after == ScanOf(d, j)
                            appended == AppendedTo(ScanOf(d, j - 1), after)
                        IN  IF pid = << "0" >>
                              THEN appended = {}
                              ELSE /\ Cardinality(appended) + (IF video THEN 1 ELSE 0) = 1
                                   /\ "items" \in appended
                                        => after.items[Len(after.items)] = ToInt(pid)
                                   /\ "missed" \in appended
                                        => << d.id, ToInt(pid) >> \in Range(built.missed_items_in_albums)
                                   /\ "wrong" \in appended
                                        => << d.id, pid >> \in Range(built.wrong_items_in_albums)
                   /\ IsFirstDefinition(k)
                        => AlbumOf(built, d.id).items_ids = ScanOf(d, Len(d.photos)).items
         /\ \A j \in 1..Len(built.albums) : 0 \notin Range(built.albums[j].items_ids)
         /\ \A e \in Range(built.missed_items_in_albums) : e[2] # 0
         /\ \A e \in Range(built.wrong_items_in_albums) : e[2] # << "0" >>

\* C15, witness: an album definition that lists "0" and a member, and another that
\* lists a malformed id and a missed one.
C15_Witness ==
    /\ scan.done
    /\ \E k \in 1..Len(albums_json) :
          /\ << "0" >> \in Range(albums_json[k].photos)
          /\ AlbumOf(built, albums_json[k].id).items_ids # << >>
    /\ built.wrong_items_in_albums # << >>
    /\ built.missed_items_in_albums # << >>

\* The metadata of id k records the placeholder as its original file.
RecordsPlaceholder(k) ==
    LET original == scan.items_metadata[k].original_name
    IN  original[Len(original)] = "video_encoding.jpg"

\* A photo id of an album definition that is numeric, is not a key of matched and is
\* not the id of an unprocessed video.
NumericNotMatched(pid) ==
    /\ IsNumeric(pid)
    /\ ToInt(pid) \notin DOMAIN scan.items \cap DOMAIN scan.items_metadata
    /\ ~(ToInt(pid) \in DOMAIN scan.items_metadata /\ RecordsPlaceholder(ToInt(pid)))

MembersAreMatched ==
    \A j \in 1..Len(built.albums) :
        Range(built.albums[j].items_ids) \subseteq DOMAIN scan.items \cap DOMAIN scan.items_metadata

\* C16, as stated: every numeric photo id of an album definition that is not a key of
\* matched and not an unprocessed video is recorded in missed_items_in_albums, and
\* the members of an album are keys of matched.
C16_NumericNotMatchedIsMissed ==
    scan.done
      => /\ \A k \in 1..Len(albums_json) : \A pid \in Range(albums_json[k].photos) :
               NumericNotMatched(pid)
                 => << albums_json[k].id, ToInt(pid) >> \in Range(built.missed_items_in_albums)
         /\ MembersAreMatched

\* C16, amended: every numeric photo id other than the sentinel "0" that is not a key
\* of matched and not an unprocessed video is recorded in missed_items_in_albums, and
\* the members of an album are keys of matched.
C16_NumericNotMatchedIsMissedButZero ==
    scan.done
      => /\ \A k \in 1..Len(albums_json) : \A pid \in Range(albums_json[k].photos) :
               (NumericNotMatched(pid) /\ pid # << "0" >>)
                 => << albums_json[k].id, ToInt(pid) >> \in Range(built.missed_items_in_albums)
         /\ MembersAreMatched

\* C16, witness: an album definition lists "0" and an id that is recorded as missed.
C16_Witness ==
    /\ scan.done
    /\ \E k \in 1..Len(albums_json) :
          /\ << "0" >> \in Range(albums_json[k].photos)
          /\ \E pid \in Range(albums_json[k].photos) :
                /\ pid # << "0" >>
                /\ NumericNotMatched(pid)
                /\ << albums_json[k].id, ToInt(pid) >> \in Range(built.missed_items_in_albums)

\* C17: album a is in item_to_albums_index[i] exactly if a is an album of the index
\* and i is in its items_ids, also when albums.json defines an album id twice.
C17_IndexIsTranspose ==
    scan.done
      => \A i \in DOMAIN scan.items \cup DOMAIN built.item_to_albums_index :
           \A a \in {"a", "b"} :
              (i \in DOMAIN built.item_to_albums_index /\ a \in Range(built.item_to_albums_index[i]))
                <=> (a \in AlbumIds(built) /\ i \in Range(AlbumOf(built, a).items_ids))

\* C18: items_without_albums holds exactly the keys of matched that are not keys of
\* item_to_albums_index, each once, and every key of item_to_albums_index is a key
\* of matched.
C18_WithoutAlbumsIsDifference ==
    scan.done
      => /\ Range(built.items_without_albums) = MatchedOfBuilt \ DOMAIN built.item_to_albums_index
         /\ Len(built.items_without_albums) = Cardinality(Range(built.items_without_albums))
         /\ DOMAIN built.item_to_albums_index \subseteq MatchedOfBuilt

\* C18, witness: a matched item in an album and a matched item in none.
C18_Witness ==
    /\ scan.done
    /\ built.items_without_albums # << >>
    /\ DOMAIN built.item_to_albums_index # {}

\* C19: a metadata id that records the placeholder video_encoding.jpg and has no item
\* is in unprocessed_videos_metadata and not in without_items; without_items is
\* exactly the metadata ids without item that do not record the placeholder.
C19_UnprocessedVideoIsNotWithoutItem ==
    scan.done
      => /\ \A k \in DOMAIN scan.items_metadata \ DOMAIN scan.items :
               RecordsPlaceholder(k)
                 => k \in built.unprocessed_videos_metadata /\ k \notin built.without_items
         /\ built.without_items =
              {k \in DOMAIN scan.items_metadata \ DOMAIN scan.items : ~RecordsPlaceholder(k)}

\* C19, witness: an unprocessed video without item, next to a metadata without item
\* that is reported.
C19_Witness ==
    /\ scan.done
    /\ \E k \in DOMAIN scan.items_metadata \ DOMAIN scan.items :
          RecordsPlaceholder(k) /\ k \in built.unprocessed_videos_metadata
    /\ built.without_items # {}

\* No two album rows of table t have the same album id.
OneRowPerAlbum(t) ==
    \A i, j \in 1..Len(t.albums) : t.albums[i].album_id = t.albums[j].album_id => i = j

\* C20: init_albums_to_upload_to_google_photos and init_items_to_upload_to_google_photos
\* leave every row that the store already holds as it is (status and remote id), add a
\* pending row for the keys of the archive that have none, and never a second row for
\* a key: the store holds at most one row for an album id (for a pair, the rows of
\* gphotos_items are a function of the pair).
C20_RegisteringIsIdempotent ==
    [][/\ OneRowPerAlbum(db) /\ OneRowPerAlbum(disk)
       /\ (pc = "init_albums" /\ pc' = "init_items")
          => /\ \A j \in 1..Len(db.albums) : db'.albums[j] = db.albums[j]
             /\ \A j \in (Len(db.albums) + 1)..Len(db'.albums) :
                   /\ db'.albums[j].status = "none" /\ db'.albums[j].google_id = NoId
                   /\ db'.albums[j].album_id \in AlbumIds(archive)
             /\ AlbumIds(archive) \subseteq {db'.albums[j].album_id : j \in 1..Len(db'.albums)}
             /\ db'.items = db.items
       /\ (pc = "init_items" /\ pc' \in {"init_items", "fetch_albums"})
          => /\ \A k \in DOMAIN db.items : k \in DOMAIN db'.items /\ db'.items[k] = db.items[k]
             /\ \A k \in DOMAIN db'.items \ DOMAIN db.items :
                   db'.items[k] = [status |-> "none", google_id |-> NoId]
             /\ db'.albums = db.albums
       /\ (pc = "init_items" /\ pc' = "fetch_albums" /\ archive = ArchiveOnDisk
             /\ disk.items # << >>)
          => disk'.items = disk.items /\ disk'.albums = disk.albums
      ]_vars

\* C20, witness: the rows have been registered again on a store that held a row for
\* every key, one of them 'uploaded' and one 'created', and the store is as it was.
C20_Witness ==
    /\ pc = "init_items"
    /\ init_idx = Len(archive.matched)
    /\ db = disk
    /\ DOMAIN db.items = {Key(1, "a"), Key(2, NoAlbum)}
    /\ \E k \in DOMAIN db.items : db.items[k].status = "uploaded"
    /\ \E j \in 1..Len(db.albums) : db.albums[j].status = "created"

\* rows are the pending rows of the first n items of the archive, which are in no album.
ArePendingRowsOf(rows, n) ==
    /\ Cardinality(DOMAIN rows) = n
    /\ \A j \in 1..n : Key(archive.matched[j], NoAlbum) \in DOMAIN rows
    /\ \A k \in DOMAIN rows : rows[k] = [status |-> "none", google_id |-> NoId]

\* The items before the last commit point that the loop has passed at index n.
LastCommitPoint(n) == IF n = 0 THEN 0 ELSE ((n - 1) \div CommitEvery) * CommitEvery

\* C21: while init_items_to_upload_to_google_photos inserts the pending rows, the
\* committed store holds the rows of whole batches of CommitEvery items (or of all
\* the items), those of the batches passed in this run included; a kill leaves
\* exactly the committed rows, unchanged, and none of the others; the next run leaves
\* the rows it finds as they are, adds the rows that are absent and no other, and
\* returns with one pending row for every pair, all committed.
C21_CrashKeepsCommittedBatches ==
    [][/\ pc = "init_items"
          => LET committed == Cardinality(DOMAIN disk.items)
             IN  /\ committed \in {m \in 0..BatchItems : m % CommitEvery = 0} \cup {BatchItems}
                 /\ committed >= LastCommitPoint(init_idx)
                 /\ ArePendingRowsOf(disk.items, committed)
       /\ (pc = "init_items" /\ pc' = "crashed")
          => disk' = disk /\ db' = disk
       /\ (pc = "init_items" /\ pc' = "init_items")
          => /\ \A k \in DOMAIN db.items : k \in DOMAIN db'.items /\ db'.items[k] = db.items[k]
             /\ DOMAIN db'.items \ DOMAIN db.items
                  = {Key(archive.matched[init_idx + 1], NoAlbum)} \ DOMAIN db.items
             /\ disk' \in {disk, db}
       /\ (pc = "init_items" /\ pc' = "fetch_albums")
          => /\ ArePendingRowsOf(disk'.items, BatchItems)
             /\ db' = disk'
      ]_vars

\* C21, witness: a run was killed after the commit inside the loop and has left the
\* rows of one batch; the next run, on its way through the items, has not reached
\* the rows that are absent.
C21_Witness ==
    /\ pc = "init_items"
    /\ init_idx \in 1..CommitEvery
    /\ Cardinality(DOMAIN disk.items) = CommitEvery
    /\ db = disk

\* The ways a run of the migrate command ends, and the outcome each of them is.
Ended == {"done", "aborted", "returned_1", "failed"}

Outcome(end) ==
    CASE end = "done" -> "completed"
      [] end = "aborted" -> "stopped due to rate limit"
      [] OTHER -> "internal failure"

\* C22: the exit status tells the three outcomes apart: when a run has ended, its
\* exit status is not the exit status of any way of ending with another outcome.
C22_ExitStatusTellsOutcome ==
    pc \in Ended
      => \A end \in Ended :
            Outcome(end) # Outcome(pc) => ExitStatus(end) # ExitStatus(pc)

\* ceil(S / G)
Ceil(S, G) == (S + G - 1) \div G

\* C23: for a payload of file_size >= 1 bytes and a granularity chunk_size >= 1, an
\* attempt sends its chunk requests from offset 0 in steps of chunk_size: the request
\* after k others is tagged k * chunk_size, it carries the finalize directive exactly
\* if k = ceil(file_size / chunk_size) - 1, after a request without the directive the
\* attempt sends the next or fails, after the one with it the attempt sends no chunk
\* and goes on to batchCreate only with the token of its answer, having sent exactly
\* ceil(file_size / chunk_size) chunk requests.
C23_ChunksCoverThePayload ==
    [][/\ (pc = "item_start" /\ pc' = "item_chunk")
          => /\ uploaded_bytes' = 0
             /\ chunk_size' >= 1
             /\ file_size' = file_size /\ file_size >= 1
       /\ pc = "item_chunk"
          => LET k == uploaded_bytes \div chunk_size
                 n == Ceil(file_size, chunk_size)
                 req == ChunkRequest(uploaded_bytes, chunk_size, file_size)
             IN  /\ k < n
                 /\ req.offset = k * chunk_size
                 /\ (req.command = "upload, finalize") <=> (k = n - 1)
                 /\ pc' # "crashed"
                      => /\ uploaded_bytes' = (k + 1) * chunk_size
                         /\ UNCHANGED << file_size, chunk_size, item_id, album_id >>
                         /\ pc' = IF resp_status' \in {"too_many", "error"} THEN "item_retry"
                                  ELSE IF k < n - 1 THEN "item_chunk"
                                  ELSE IF resp_status' = "ok" THEN "item_batch"
                                  ELSE "item_retry"
       /\ pc = "item_batch"
          => uploaded_bytes = Ceil(file_size, chunk_size) * chunk_size /\ resp_status = "ok"
      ]_vars

\* C23, witness: a payload of 3 bytes has gone in two chunks of granularity 2, and the
\* attempt is at batchCreate.
C23_Witness ==
    /\ pc = "item_batch"
    /\ file_size = 3
    /\ chunk_size = 2
    /\ uploaded_bytes = 4

\* The size of the payload of the item of the current call: the size that the zip
\* declares, or the length of the stream if the zip declares none.
PayloadSize ==
    LET file == archive.items[item_id]
    IN  CASE file.declared # 0 -> file.declared
          [] OTHER -> file.content

Pending == [status |-> "none", google_id |-> NoId]

\* C24: the size given in the session start request is the declared size of the file
\* if that is not zero, else the length of its stream; if both are zero the attempt
\* sends no request and is a failed attempt that is retried, and the call returns
\* after RetryCeiling such attempts without a remote id, having made no remote call,
\* the row still pending, and the run goes on with the next item.
C24_EmptyPayloadIsGivenUp ==
    [][/\ (pc = "item_attempt" /\ retry < RetryCeiling /\ pc' # "crashed")
          => IF PayloadSize = 0
               THEN /\ pc' = "item_retry"
                    /\ UNCHANGED << store, remote, calls, retry >>
               ELSE /\ pc' = "item_start"
                    /\ file_size' = PayloadSize
       /\ pc = "item_start" => file_size = PayloadSize /\ file_size # 0
       /\ (pc = "item_retry" /\ PayloadSize = 0 /\ pc' # "crashed")
          => /\ pc' = "item_attempt"
             /\ retry' = retry + 1
             /\ UNCHANGED << store, remote, calls >>
       /\ (pc = "item_return" /\ item_status = "none" /\ PayloadSize = 0)
          => /\ retry = RetryCeiling /\ attempts = RetryCeiling
             /\ calls = 0
             /\ item_google_id = NoId
             /\ db.items[CurrentKey] = Pending /\ disk.items[CurrentKey] = Pending
             /\ UNCHANGED << disk, remote >>
             /\ pc' # "crashed"
                  => /\ pc' = IF album_id = NoAlbum THEN "free_items" ELSE "album_items"
                     /\ ii' = ii + 1
                     /\ UNCHANGED db
      ]_vars

\* C24, witness: the call for the empty file has given up after RetryCeiling attempts
\* and no request, in a store where the other file has been uploaded.
C24_Witness ==
    /\ pc = "item_return"
    /\ item_status = "none"
    /\ PayloadSize = 0
    /\ attempts = RetryCeiling
    /\ calls = 0
    /\ disk.items[CurrentKey] = Pending
    /\ \E k \in DOMAIN disk.items : disk.items[k].status = "uploaded"

\* Every entry of index f is an entry of index g, as it is in f.
KeepsEntries(f, g) == \A k \in DOMAIN f : k \in DOMAIN g /\ g[k] = f[k]

\* C25: build inserts first-write-wins: a file scanned when an id is a key of the
\* item index or of the metadata index leaves the entry under that id as it is,
\* whether the file yields the id as its main candidate, as its swapped candidate or
\* as a metadata record; the index that build returns holds the entries so collected.
C25_FirstWriteWins ==
    [][/\ KeepsEntries(scan.items, scan'.items)
       /\ KeepsEntries(scan.items_metadata, scan'.items_metadata)
       /\ scan'.done => built'.items = scan.items
      ]_vars

\* C25, witness: of five files scanned three were media files, one of them with a
\* numeric name and one that has left no entry at all (its ids were keys already);
\* the metadata index has one entry.
C25_Witness ==
    /\ scan.n = 5
    /\ scan.uid = 3
    /\ ~scan.albums_file
    /\ Cardinality(DOMAIN scan.items_metadata) = 1
    /\ \E u \in 0..2 : \A k \in DOMAIN scan.items : scan.items[k].uid # u
    /\ \E k \in DOMAIN scan.items : IsNumeric(scan.items[k].name)

PendingAlbum(id) == [album_id |-> id, status |-> "none", google_id |-> NoId]

\* C26: a call of create_google_photos_album that returns without a remote id has
\* made RetryCeiling attempts, all failed, and has left the album row pending; the run
\* goes on with the next album row.  No call of upload_item_to_google_photos is made
\* for an album without a remote id, and while the run goes on the item rows of the
\* albums it has passed with their row pending stay pending, with no remote item
\* created for them.
C26_FailedAlbumIsSkipped ==
    [][/\ (pc = "album_return" /\ album_google_id = NoId)
          => /\ retry = RetryCeiling /\ attempts = RetryCeiling
             /\ \E j \in 1..Len(db.albums) : db.albums[j] = PendingAlbum(album_id)
             /\ \E j \in 1..Len(disk.albums) : disk.albums[j] = PendingAlbum(album_id)
             /\ UNCHANGED << disk, remote >>
             /\ \/ pc' = "crashed"
                \/ /\ pc' = "albums_loop"
                   /\ ai' = ai + 1
                   /\ UNCHANGED db
       /\ (pc' = "item_lookup" /\ album_id' # NoAlbum)
          => /\ album_google_id' # NoId
             /\ \E j \in 1..Len(db'.albums) :
                   /\ db'.albums[j].album_id = album_id'
                   /\ db'.albums[j].status = "created"
       /\ (pc \notin Stopped /\ pc' \notin Stopped)
          => \A j \in 1..(ai - 1) :
                db.albums[j].status = "none"
                  => \A k \in DOMAIN db.items :
                        k[2] = db.albums[j].album_id
                          => /\ db.items[k] = Pending
                             /\ db'.items[k] = Pending
                             /\ remote_items'[k] = remote_items[k]
      ]_vars

\* C26, witness: the creation of album "a" has failed, its row and the rows of its
\* two items are pending, and the run is creating the next album, "b".
C26_Witness ==
    /\ pc = "album_attempt"
    /\ ai = 2
    /\ album_id = "b"
    /\ db.albums[1] = PendingAlbum("a")
    /\ {Key(1, "a"), Key(2, "a")} \subseteq DOMAIN db.items
    /\ db.items[Key(1, "a")] = Pending /\ db.items[Key(2, "a")] = Pending

\* C27: when every remote call succeeds, a run that returns has left 'uploaded' every
\* row that init_items_to_upload_to_google_photos registers for a matched item of
\* its archive, also when albums.json defines an album id twice.
C27_EveryRegisteredRowUploaded ==
    pc = "done"
      => \A i \in Range(archive.matched) :
            \A n \in 1..Len(AlbumsOfItem(archive, i)) :
               LET k == Key(i, AlbumsOfItem(archive, i)[n])
               IN  k \in DOMAIN disk.items /\ disk.items[k].status = "uploaded"

\* C28: what the pipeline looks up exists, whatever runs the store has seen: when
\* upload_item_to_google_photos is entered the store holds a row for its pair and
\* the item id is a key of matched, and the album id of the row that the loop over
\* the album rows is at is a key of the albums of the current archive.
C28_LookupsFindTheirTarget ==
    /\ pc = "item_lookup"
         => /\ CurrentKey \in DOMAIN db.items
            /\ item_id \in Range(archive.matched)
            /\ album_id # NoAlbum => album_id \in AlbumIds(archive)
    /\ (pc = "albums_loop" /\ ai <= Len(album_rows))
         => album_rows[ai].album_id \in AlbumIds(archive)

====
